---------------------------- MODULE Spec2Model ----------------------------
(***************************************************************************)
(* Dialogue planner (src/planner.py) and chatbot controller (src/main.py). *)
(*                                                                         *)
(* A text is a sequence of one-character strings, so that the regular      *)
(* expressions and substring tests of the planner are computed on          *)
(* characters.  Tool responses are strings.  Python's None is NoneStr in   *)
(* a string-typed slot and NoData in a dict-typed slot.                    *)
(***************************************************************************)
EXTENDS Integers, Sequences, FiniteSets, TLC

(***************************************************************************)
(* Bounds of the model.                                                    *)
(***************************************************************************)
MaxLen == 4
MaxTokens == 3
MaxCalls == 3
NumThreads == 2

(***************************************************************************)
(* Characters: str.lower(), and the classes \d, \s, \w of module re.       *)
(***************************************************************************)
UpperChars ==
  <<"A","B","C","D","E","F","G","H","I","J","K","L","M",
    "N","O","P","Q","R","S","T","U","V","W","X","Y","Z">>

LowerChars ==
  <<"a","b","c","d","e","f","g","h","i","j","k","l","m",
    "n","o","p","q","r","s","t","u","v","w","x","y","z">>

DigitChars == <<"0","1","2","3","4","5","6","7","8","9">>

Range(f) == {f[i] : i \in DOMAIN f}

UpperSet == Range(UpperChars)

DigitSet == Range(DigitChars)

WordCharSet == UpperSet \cup Range(LowerChars) \cup DigitSet \cup {"_"}

LowerOf ==
  [c \in UpperSet |->
     LowerChars[CHOOSE i \in DOMAIN UpperChars : UpperChars[i] = c]]

LowerChar(c) == IF c \in UpperSet THEN LowerOf[c] ELSE c

Lower(s) == [i \in 1..Len(s) |-> LowerChar(s[i])]

IsDigit(c) == c \in DigitSet

IsSpace(c) == c \in {" ", "\t", "\n"}

IsWordChar(c) == c \in WordCharSet

IsOpChar(c) == c \in {"+", "-", "*", "/"}

DigitVal(c) == (CHOOSE i \in DOMAIN DigitChars : DigitChars[i] = c) - 1

\* int(digits) for a non-empty run of decimal digits
RECURSIVE ParseInt(_)
ParseInt(ds) ==
  IF Len(ds) = 0 THEN 0
  ELSE ParseInt(SubSeq(ds, 1, Len(ds) - 1)) * 10 + DigitVal(ds[Len(ds)])

\* the literal w occurs in s at position i
HasAt(s, i, w) ==
  /\ i >= 1
  /\ i + Len(w) - 1 <= Len(s)
  /\ \A k \in 1..Len(w) : s[i + k - 1] = w[k]

\* Python's `w in s`, and re.search of a literal
Contains(s, w) == \E i \in 1..(Len(s) + 1) : HasAt(s, i, w)

\* the end (exclusive) of the greedy match of \d* at i
RECURSIVE DigitsEnd(_, _)
DigitsEnd(s, i) ==
  IF i <= Len(s) /\ IsDigit(s[i]) THEN DigitsEnd(s, i + 1) ELSE i

\* the end (exclusive) of the greedy match of \s* at i
RECURSIVE SpacesEnd(_, _)
SpacesEnd(s, i) ==
  IF i <= Len(s) /\ IsSpace(s[i]) THEN SpacesEnd(s, i + 1) ELSE i

Min(S) == CHOOSE x \in S : \A y \in S : x <= y

(***************************************************************************)
(* Words of the patterns.                                                  *)
(***************************************************************************)
w_what_s == <<"w","h","a","t","'","s">>
w_whats == <<"w","h","a","t","s">>
w_what_is == <<"w","h","a","t"," ","i","s"," ">>
w_calculate == <<"c","a","l","c","u","l","a","t","e">>
w_math == <<"m","a","t","h">>
w_sum_of == <<"s","u","m"," ","o","f">>
w_difference_of == <<"d","i","f","f","e","r","e","n","c","e"," ","o","f">>
w_product_of == <<"p","r","o","d","u","c","t"," ","o","f">>
w_quotient_of == <<"q","u","o","t","i","e","n","t"," ","o","f">>
w_plus == <<"p","l","u","s">>
w_minus == <<"m","i","n","u","s">>
w_times == <<"t","i","m","e","s">>
w_multiply == <<"m","u","l","t","i","p","l","y">>
w_divide == <<"d","i","v","i","d","e">>
w_substract == <<"s","u","b","s","t","r","a","c","t">>
w_subtract == <<"s","u","b","t","r","a","c","t">>
w_divided_by == <<"d","i","v","i","d","e","d"," ","b","y">>
w_add == <<"a","d","d">>
w_outlet == <<"o","u","t","l","e","t">>
w_store == <<"s","t","o","r","e">>
w_shop == <<"s","h","o","p">>
w_location == <<"l","o","c","a","t","i","o","n">>
w_branch == <<"b","r","a","n","c","h">>
w_opening == <<"o","p","e","n","i","n","g">>
w_closing == <<"c","l","o","s","i","n","g">>
w_hours == <<"h","o","u","r","s">>
w_time == <<"t","i","m","e">>
w_open == <<"o","p","e","n">>
w_close == <<"c","l","o","s","e">>
w_damansara == <<"d","a","m","a","n","s","a","r","a">>
w_petaling_jaya == <<"p","e","t","a","l","i","n","g"," ","j","a","y","a">>
w_kuala_lumpur == <<"k","u","a","l","a"," ","l","u","m","p","u","r">>
w_pj == <<"p","j">>
w_kl == <<"k","l">>
w_ss == <<"s","s">>
w_ss2 == <<"s","s","2">>
w_ss_2 == <<"s","s"," ","2">>
w_ss15 == <<"s","s","1","5">>
w_ss_15 == <<"s","s"," ","1","5">>

(***************************************************************************)
(* Python's None.                                                          *)
(***************************************************************************)
NoneStr == "None"
NoData == [kind |-> "none"]

\* the result of a failed re.search, and of a successful one with 3 groups
NoMatch == [ok |-> FALSE, g1 |-> <<>>, g2 |-> <<>>, g3 |-> <<>>]
Match(a, b, c) == [ok |-> TRUE, g1 |-> a, g2 |-> b, g3 |-> c]

(***************************************************************************)
(* (\d+)\s*([\+\-\*\/])\s*(\d+) matched at position i.  Every quantifier   *)
(* is greedy, and a shorter run never lets the rest match, since the       *)
(* character after a shorter run is again of the run's class.              *)
(***************************************************************************)
MathAt(s, i) ==
  LET j == DigitsEnd(s, i)
      k == SpacesEnd(s, j)
      l == SpacesEnd(s, k + 1)
      m == DigitsEnd(s, l)
  IN IF j > i /\ k <= Len(s) /\ IsOpChar(s[k]) /\ m > l
     THEN Match(SubSeq(s, i, j - 1), s[k], SubSeq(s, l, m - 1))
     ELSE NoMatch

\* re.search(math_pattern, s): the leftmost match
MathSearch(s) ==
  LET starts == {i \in 1..Len(s) : MathAt(s, i).ok}
  IN IF starts = {} THEN NoMatch ELSE MathAt(s, Min(starts))

\* the alternation (plus|minus|times|multiply|divide|substract|divided by),
\* in the order the pattern tries its branches
OpWords ==
  <<w_plus, w_minus, w_times, w_multiply, w_divide, w_substract, w_divided_by>>

\* (\d+)\s*(<word>)\s*(\d+) at position i with the n-th branch and the
\* later ones
RECURSIVE NlAtFrom(_, _, _)
NlAtFrom(s, i, n) ==
  IF n > Len(OpWords) THEN NoMatch
  ELSE LET j == DigitsEnd(s, i)
           k == SpacesEnd(s, j)
           w == OpWords[n]
           l == SpacesEnd(s, k + Len(w))
           m == DigitsEnd(s, l)
       IN IF j > i /\ HasAt(s, k, w) /\ m > l
          THEN Match(SubSeq(s, i, j - 1), w, SubSeq(s, l, m - 1))
          ELSE NlAtFrom(s, i, n + 1)

NlAt(s, i) == NlAtFrom(s, i, 1)

\* re.search(nl_math_pattern, s)
NlSearch(s) ==
  LET starts == {i \in 1..Len(s) : NlAt(s, i).ok}
  IN IF starts = {} THEN NoMatch ELSE NlAt(s, Min(starts))

\* what is (\d+)\s*([\+\-\*\/])\s*(\d+) at position i
WhatIsAt(s, i) ==
  IF HasAt(s, i, w_what_is) THEN MathAt(s, i + Len(w_what_is)) ELSE NoMatch

\* re.search(what_is_pattern, s)
WhatIsSearch(s) ==
  LET starts == {i \in 1..Len(s) : WhatIsAt(s, i).ok}
  IN IF starts = {} THEN NoMatch ELSE WhatIsAt(s, Min(starts))

\* whats\s+[\w\s]*\d+ : "whats", a white space, then word characters and
\* white space up to some digit
WhatsNumber(s) ==
  \E i \in 1..Len(s) :
     /\ HasAt(s, i, w_whats)
     /\ i + 5 <= Len(s)
     /\ IsSpace(s[i + 5])
     /\ \E p \in (i + 6)..Len(s) :
           /\ IsDigit(s[p])
           /\ \A q \in (i + 6)..(p - 1) : IsWordChar(s[q]) \/ IsSpace(s[q])

\* ss\s*\d+
OutletCode(s) ==
  \E i \in 1..Len(s) :
     /\ HasAt(s, i, w_ss)
     /\ LET k == SpacesEnd(s, i + 2) IN k <= Len(s) /\ IsDigit(s[k])

(***************************************************************************)
(* AgenticPlanner.calculation_patterns and outlet_patterns: whether        *)
(* re.search finds the n-th pattern in s.                                  *)
(***************************************************************************)
CalculationPattern(n, s) ==
  CASE n = 1 -> MathSearch(s).ok
    [] n = 2 -> WhatIsSearch(s).ok
    [] n = 3 -> NlSearch(s).ok
    [] n = 4 -> \/ Contains(s, w_sum_of)
                \/ Contains(s, w_difference_of)
                \/ Contains(s, w_product_of)
                \/ Contains(s, w_quotient_of)
    [] n = 5 -> Contains(s, w_calculate) \/ Contains(s, w_math)
    [] n = 6 -> Contains(s, w_what_s) \/ WhatsNumber(s)

NumCalculationPatterns == 6

OutletPattern(n, s) ==
  CASE n = 1 -> OutletCode(s)
    [] n = 2 -> \/ Contains(s, w_outlet)
                \/ Contains(s, w_store)
                \/ Contains(s, w_shop)
                \/ Contains(s, w_location)
                \/ Contains(s, w_branch)
    [] n = 3 -> \/ Contains(s, w_opening)
                \/ Contains(s, w_closing)
                \/ Contains(s, w_hours)
                \/ Contains(s, w_time)
    [] n = 4 -> \/ Contains(s, w_damansara)
                \/ Contains(s, w_petaling_jaya)
                \/ Contains(s, w_kuala_lumpur)
                \/ Contains(s, w_pj)
                \/ Contains(s, w_kl)

NumOutletPatterns == 4

\* AgenticPlanner.operator_map.get(op_word)
OperatorMap(w) ==
  CASE w = w_plus -> "+"
    [] w = w_add -> "+"
    [] w = w_minus -> "-"
    [] w = w_subtract -> "-"
    [] w = w_times -> "*"
    [] w = w_multiply -> "*"
    [] w = w_divide -> "/"
    [] w = w_divided_by -> "/"
    [] OTHER -> NoneStr

\* analyze_intent with Intent.UNKNOWN as its default
AnalyzeIntentUnknownDefault(user_input) ==
  LET user_input_lower == Lower(user_input)
  IN IF \E n \in 1..NumCalculationPatterns :
           CalculationPattern(n, user_input_lower)
     THEN "calculation"
     ELSE IF \E n \in 1..NumOutletPatterns : OutletPattern(n, user_input_lower)
          THEN "outlet_info"
          ELSE "unknown"

\* analyze_intent searching the outlet patterns before the calculation
\* patterns
AnalyzeIntentOutletFirst(user_input) ==
  LET user_input_lower == Lower(user_input)
  IN IF \E n \in 1..NumOutletPatterns : OutletPattern(n, user_input_lower)
     THEN "outlet_info"
     ELSE IF \E n \in 1..NumCalculationPatterns :
                CalculationPattern(n, user_input_lower)
          THEN "calculation"
          ELSE "general_chat"

(***************************************************************************)
(* AgenticPlanner.analyze_intent                                           *)
(***************************************************************************)
AnalyzeIntent(user_input) ==
  LET user_input_lower == Lower(user_input)
  IN IF \E n \in 1..NumCalculationPatterns :
           CalculationPattern(n, user_input_lower)
     THEN "calculation"
     ELSE IF \E n \in 1..NumOutletPatterns : OutletPattern(n, user_input_lower)
          THEN "outlet_info"
          ELSE "general_chat"

(***************************************************************************)
(* AgenticPlanner.extract_calculation_data.  int() of a run of decimal     *)
(* digits does not raise, so the except branches are not taken.            *)
(***************************************************************************)
CalcData(a, op, b) ==
  [kind |-> "calc", num1 |-> a, operator |-> op, num2 |-> b]

\* extract_calculation_data dropping the operator it matched for '+'
ExtractCalculationDataDefaultOp(user_input) ==
  LET match == MathSearch(user_input)
  IN IF match.ok
     THEN CalcData(ParseInt(match.g1), "+", ParseInt(match.g3))
     ELSE NoData

ExtractCalculationData(user_input) ==
  LET user_input_lower == Lower(user_input)
      match == MathSearch(user_input)
      match_nl == NlSearch(user_input_lower)
      operator_symbol == OperatorMap(match_nl.g2)
      match_what_is == WhatIsSearch(user_input_lower)
  IN IF match.ok
     THEN CalcData(ParseInt(match.g1), match.g2, ParseInt(match.g3))
     ELSE IF match_nl.ok /\ operator_symbol # NoneStr
          THEN CalcData(ParseInt(match_nl.g1), operator_symbol,
                        ParseInt(match_nl.g3))
          ELSE IF match_what_is.ok
               THEN CalcData(ParseInt(match_what_is.g1), match_what_is.g2,
                             ParseInt(match_what_is.g3))
               ELSE NoData

(***************************************************************************)
(* AgenticPlanner.extract_outlet_data                                      *)
(***************************************************************************)
OutletData(loc, info) ==
  [kind |-> "outlet", location |-> loc, info_type |-> info]

\* the location with the general areas tested before the outlets
ExtractLocationGeneralFirst(user_input_lower) ==
  IF \/ Contains(user_input_lower, w_petaling_jaya)
     \/ Contains(user_input_lower, w_pj)
  THEN "Petaling Jaya"
  ELSE IF \/ Contains(user_input_lower, w_kuala_lumpur)
          \/ Contains(user_input_lower, w_kl)
  THEN "Kuala Lumpur"
  ELSE IF Contains(user_input_lower, w_ss2) \/ Contains(user_input_lower, w_ss_2)
  THEN "SS2"
  ELSE IF \/ Contains(user_input_lower, w_ss15)
          \/ Contains(user_input_lower, w_ss_15)
  THEN "SS15"
  ELSE IF Contains(user_input_lower, w_damansara)
  THEN "Damansara"
  ELSE NoneStr

ExtractLocation(user_input_lower) ==
  IF Contains(user_input_lower, w_ss2) \/ Contains(user_input_lower, w_ss_2)
  THEN "SS2"
  ELSE IF \/ Contains(user_input_lower, w_ss15)
          \/ Contains(user_input_lower, w_ss_15)
  THEN "SS15"
  ELSE IF Contains(user_input_lower, w_damansara)
  THEN "Damansara"
  ELSE IF \/ Contains(user_input_lower, w_petaling_jaya)
          \/ Contains(user_input_lower, w_pj)
  THEN "Petaling Jaya"
  ELSE IF \/ Contains(user_input_lower, w_kuala_lumpur)
          \/ Contains(user_input_lower, w_kl)
  THEN "Kuala Lumpur"
  ELSE NoneStr

ExtractInfoType(user_input_lower) ==
  IF Contains(user_input_lower, w_opening) \/ Contains(user_input_lower, w_open)
  THEN "opening_hours"
  ELSE IF \/ Contains(user_input_lower, w_closing)
          \/ Contains(user_input_lower, w_close)
  THEN "closing_hours"
  ELSE IF Contains(user_input_lower, w_hours) \/ Contains(user_input_lower, w_time)
  THEN "hours"
  ELSE NoneStr

\* extract_outlet_data returning its dict whatever it found
ExtractOutletDataAlwaysDict(user_input) ==
  LET user_input_lower == Lower(user_input)
  IN OutletData(ExtractLocation(user_input_lower),
                ExtractInfoType(user_input_lower))

ExtractOutletData(user_input) ==
  LET user_input_lower == Lower(user_input)
      location == ExtractLocation(user_input_lower)
      info_type == ExtractInfoType(user_input_lower)
  IN IF location # NoneStr \/ info_type # NoneStr
     THEN OutletData(location, info_type)
     ELSE NoData

(***************************************************************************)
(* AgenticPlanner.plan_next_action.  The confidence is in hundredths.      *)
(***************************************************************************)
\* the info_type put in the prompt as it is
ReplaceUnderscoreForgotten(info_type) == info_type

\* str.replace('_', ' ') on the values info_type takes
ReplaceUnderscore(info_type) ==
  CASE info_type = "opening_hours" -> "opening hours"
    [] info_type = "closing_hours" -> "closing hours"
    [] OTHER -> info_type

GeneralAreas == {"Petaling Jaya", "Kuala Lumpur"}

CalcMissingInfo ==
  "I can help with calculations! What numbers and operation do you need? (e.g., '5 + 3' or '10 times 5')"

OutletMissingInfo ==
  "Which outlet are you asking about? Please specify a location (e.g., SS2, SS15, Damansara) or what kind of information you're looking for."

PlanningResult(i, a, m, e, c) ==
  [intent |-> i, action |-> a, missing_info |-> m, extracted_data |-> e,
   confidence |-> c]

\* the calculation branch not testing whether anything was extracted
PlanCalculationUnchecked(user_input) ==
  PlanningResult("calculation", "use_calculator", NoneStr,
                 ExtractCalculationData(user_input), 90)

PlanCalculation(user_input) ==
  LET extracted_data == ExtractCalculationData(user_input)
  IN IF extracted_data # NoData
     THEN PlanningResult("calculation", "use_calculator", NoneStr,
                         extracted_data, 90)
     ELSE PlanningResult("calculation", "ask_for_info", CalcMissingInfo,
                         extracted_data, 80)

PlanOutletInfo(user_input) ==
  LET extracted_data == ExtractOutletData(user_input)
      some == extracted_data # NoData
  IN IF /\ some
        /\ extracted_data.location # NoneStr
        /\ extracted_data.location \notin GeneralAreas
     THEN PlanningResult("outlet_info", "use_outlet_db", NoneStr,
                         extracted_data, 90)
     ELSE IF /\ some
             /\ \/ extracted_data.location \in GeneralAreas
                \/ extracted_data.location = NoneStr
             /\ extracted_data.info_type # NoneStr
     THEN PlanningResult("outlet_info", "ask_for_info",
            "Yes, we have outlets in Petaling Jaya! Which specific outlet are you referring to (e.g., SS2, SS15, Damansara) to check the "
              \o ReplaceUnderscore(extracted_data.info_type) \o "?",
            extracted_data, 85)
     ELSE IF /\ some
             /\ extracted_data.location \in GeneralAreas
             /\ extracted_data.info_type = NoneStr
     THEN PlanningResult("outlet_info", "ask_for_info",
            "Yes, we have outlets in " \o extracted_data.location
              \o "! Which specific outlet are you referring to?",
            extracted_data, 85)
     ELSE PlanningResult("outlet_info", "ask_for_info", OutletMissingInfo,
                         extracted_data, 70)

\* plan_next_action falling through with the dataclass's default confidence
PlanNextActionDefaultConfidence(user_input) ==
  LET intent == AnalyzeIntent(user_input)
  IN IF intent = "calculation" THEN PlanCalculation(user_input)
     ELSE IF intent = "outlet_info" THEN PlanOutletInfo(user_input)
     ELSE PlanningResult(intent, "respond_directly", NoneStr, NoData, 0)

PlanNextAction(user_input) ==
  LET intent == AnalyzeIntent(user_input)
  IN IF intent = "calculation" THEN PlanCalculation(user_input)
     ELSE IF intent = "outlet_info" THEN PlanOutletInfo(user_input)
     ELSE PlanningResult(intent, "respond_directly", NoneStr, NoData, 50)

(***************************************************************************)
(* perform_simple_calculation.  Arithmetic gives a value or raises; the    *)
(* function's except clause turns what is raised into a string.            *)
(***************************************************************************)
DivisionByZeroMsg == "Error: Division by zero is not allowed."

InvalidOperatorMsg == "Error: Invalid operator for calculation."

Returned(v) == [raised |-> FALSE, value |-> v]
Raised(e) == [raised |-> TRUE, value |-> e]

\* str(num1 / num2): true division gives a float
TrueDivide(num1, num2) ==
  IF num2 = 0 THEN Raised("division by zero")
  ELSE IF num1 % num2 = 0
       THEN Returned(ToString(num1 \div num2) \o ".0")
       ELSE Returned("float(" \o ToString(num1) \o "/" \o ToString(num2) \o ")")

\* the try block without its test of num2
CalculationBodyUnguarded(num1, operator, num2) ==
  IF operator = "+" THEN Returned(ToString(num1 + num2))
  ELSE IF operator = "-" THEN Returned(ToString(num1 - num2))
  ELSE IF operator = "*" THEN Returned(ToString(num1 * num2))
  ELSE IF operator = "/" THEN TrueDivide(num1, num2)
  ELSE Returned(InvalidOperatorMsg)

\* the body of the try block
CalculationBody(num1, operator, num2) ==
  IF operator = "+" THEN Returned(ToString(num1 + num2))
  ELSE IF operator = "-" THEN Returned(ToString(num1 - num2))
  ELSE IF operator = "*" THEN Returned(ToString(num1 * num2))
  ELSE IF operator = "/"
       THEN IF num2 = 0 THEN Returned(DivisionByZeroMsg)
            ELSE TrueDivide(num1, num2)
       ELSE Returned(InvalidOperatorMsg)

PerformSimpleCalculation(num1, operator, num2) ==
  LET r == CalculationBody(num1, operator, num2)
  IN IF r.raised
     THEN "An unexpected error occurred during calculation: " \o r.value
     ELSE r.value

(***************************************************************************)
(* get_mock_outlet_info                                                    *)
(***************************************************************************)
LocationMap ==
  ("SS2" :> [opening_hours |-> "9:00 AM", closing_hours |-> "10:00 PM",
             general_info |-> "a bustling spot in Petaling Jaya with good vibes."])
  @@ ("SS15" :> [opening_hours |-> "8:00 AM", closing_hours |-> "9:00 PM",
                 general_info |-> "a lively student hangout spot."])
  @@ ("Damansara" :> [opening_hours |-> "7:00 AM", closing_hours |-> "11:00 PM",
                      general_info |-> "a cozy spot for early birds in Damansara."])
  @@ ("Petaling Jaya" :>
        [general_info |-> "several great outlets like SS2, SS15, and Damansara."])
  @@ ("Kuala Lumpur" :>
        [general_info |-> "several great outlets like our flagship KLCC branch (details not available yet!)."])

GetMockOutletInfo(location, info_type) ==
  IF location = NoneStr
  THEN "I need a specific outlet (like SS2, SS15, or Damansara) to give you information."
  ELSE IF location \notin DOMAIN LocationMap
  THEN "I don't have detailed information for an outlet specifically called '"
         \o location \o "'. Did you mean SS2, SS15, or Damansara?"
  ELSE LET outlet_data == LocationMap[location]
       IN IF location \in GeneralAreas
          THEN IF info_type # NoneStr
               THEN "We have several outlets in " \o location
                      \o ". Which specific one (e.g., SS2, SS15, Damansara) are you interested in for its "
                      \o ReplaceUnderscore(info_type) \o "?"
               ELSE "Yes, we have outlets in " \o location \o ", including "
                      \o outlet_data.general_info
                      \o ". Which specific outlet would you like to know about?"
          ELSE IF info_type = "opening_hours"
               THEN "The " \o location \o " outlet opens at "
                      \o outlet_data.opening_hours \o "."
          ELSE IF info_type = "closing_hours"
               THEN "The " \o location \o " outlet closes at "
                      \o outlet_data.closing_hours \o "."
          ELSE IF info_type = "hours"
               THEN "The " \o location \o " outlet opens at "
                      \o outlet_data.opening_hours \o " and closes at "
                      \o outlet_data.closing_hours \o "."
          ELSE "The " \o location \o " outlet is " \o outlet_data.general_info
                 \o " Would you like to know its opening or closing hours?"

(***************************************************************************)
(* The inputs of the planner: every text of at most MaxLen characters over *)
(* Alphabet, and every concatenation of at most MaxTokens tokens of one of *)
(* the three vocabularies.                                                 *)
(***************************************************************************)
Alphabet == {"5", "0", " ", "+", "/", "x"}

CalcVocab ==
  {<<"7", " ">>, <<" ", "2">>, w_plus, w_minus, w_times, w_multiply, w_divide,
   w_substract, w_subtract, w_divided_by}

KeywordVocab ==
  {w_calculate, w_what_s, w_whats \o <<" ">>, w_what_is, w_outlet,
   <<"H", "i">>, <<"7">>, <<"*">>, <<"-">>, <<" ">>}

OutletVocab ==
  {w_ss2, <<"S", "S", " ", "1", "5">>, w_damansara, w_pj, w_kl,
   w_petaling_jaya, w_open, w_closing, w_time, w_hours, w_outlet, <<" ">>}

SeqsUpTo(S, n) == UNION {[1..k -> S] : k \in 0..n}

RECURSIVE Concat(_)
Concat(ws) == IF Len(ws) = 0 THEN <<>> ELSE Head(ws) \o Concat(Tail(ws))

Inputs ==
  SeqsUpTo(Alphabet, MaxLen)
    \cup {Concat(ws) : ws \in SeqsUpTo(CalcVocab, MaxTokens)}
    \cup {Concat(ws) : ws \in SeqsUpTo(KeywordVocab, MaxTokens)}
    \cup {Concat(ws) : ws \in SeqsUpTo(OutletVocab, MaxTokens)}

(***************************************************************************)
(* State.                                                                  *)
(*   utext, probe   a text given to the planner, and the function applied  *)
(*                  to it with its result                                  *)
(*   store          ChatbotController._history_store: session id -> the    *)
(*                  identity of a ChatMessageHistory                       *)
(*   heap           the ChatMessageHistory objects: identity -> messages   *)
(*   thread         the position and the locals of each calling thread     *)
(*   ncalls         the calls started                                      *)
(*   completed      per session, the process_user_input calls returned     *)
(***************************************************************************)
VARIABLES utext, probe, store, heap, thread, ncalls, completed

pvars == <<utext, probe>>
cvars == <<store, heap, thread, ncalls, completed>>
vars == <<utext, probe, store, heap, thread, ncalls, completed>>

Threads == 1..NumThreads

Sessions == {"A", "B"}

NoProbe == [fn |-> "none"]

IdleThread ==
  [pc |-> "idle", op |-> "none", user_input |-> <<>>, session_id |-> NoneStr,
   action |-> NoneStr, response_content |-> "", history |-> 0, before |-> <<>>,
   returned |-> NoneStr]

ControllerInit ==
  /\ store = <<>>
  /\ heap = <<>>
  /\ thread = [t \in Threads |-> IdleThread]
  /\ ncalls = 0
  /\ completed = [s \in Sessions |-> 0]

(***************************************************************************)
(* The planner applied to a text: one action per function.  The tools are  *)
(* applied to the extracted data, as process_user_input applies them.      *)
(***************************************************************************)
PlanInit ==
  /\ utext \in Inputs
  /\ probe = NoProbe
  /\ ControllerInit

Apply(fn, result) ==
  /\ probe = NoProbe
  /\ probe' = [fn |-> fn, result |-> result]
  /\ UNCHANGED <<utext, cvars>>

ApplyAnalyzeIntent == Apply("analyze_intent", AnalyzeIntent(utext))

ApplyExtractCalculationData ==
  Apply("extract_calculation_data", ExtractCalculationData(utext))

ApplyExtractOutletData == Apply("extract_outlet_data", ExtractOutletData(utext))

ApplyPlanNextAction == Apply("plan_next_action", PlanNextAction(utext))

ApplyPerformSimpleCalculation ==
  LET extracted == ExtractCalculationData(utext)
  IN /\ probe = NoProbe
     /\ extracted # NoData
     /\ Apply("perform_simple_calculation",
              PerformSimpleCalculation(extracted.num1, extracted.operator,
                                       extracted.num2))

ApplyGetMockOutletInfo ==
  LET extracted == ExtractOutletData(utext)
  IN /\ probe = NoProbe
     /\ extracted # NoData
     /\ Apply("get_mock_outlet_info",
              GetMockOutletInfo(extracted.location, extracted.info_type))

PlanNext ==
  \/ ApplyAnalyzeIntent
  \/ ApplyExtractCalculationData
  \/ ApplyExtractOutletData
  \/ ApplyPlanNextAction
  \/ ApplyPerformSimpleCalculation
  \/ ApplyGetMockOutletInfo

PlanSpec == PlanInit /\ [][PlanNext]_vars

(***************************************************************************)
(* The controller.  A thread calls process_user_input or                   *)
(* get_session_history; each action is one step of the call, so that the   *)
(* steps of two threads interleave as the interpreter may interleave them. *)
(***************************************************************************)
t_div0 == <<"5", " ", "/", " ", "0">>
t_calculate == w_calculate
t_ss2 == <<"S", "S", "2", " ", "o", "p", "e", "n">>
t_hi == <<"H", "i">>

HandleInputs == {t_div0, t_calculate, t_ss2, t_hi}

\* the content of the message the chat model returns
LlmReplies == {"<llm reply>"}

HumanMessage(content) == [type |-> "human", content |-> content]
AIMessage(content) == [type |-> "ai", content |-> content]

\* the messages of the history registered for a session, none registered
\* being an empty history
Messages(session_id) ==
  IF session_id \in DOMAIN store THEN heap[store[session_id]] ELSE <<>>

Quiescent(t) == thread[t].pc \in {"idle", "done", "raised"}

\* get_session_history creating a history at every call
NotInStoreAlways(history_store, session_id) == TRUE

\* `session_id not in self._history_store`
NotInStore(history_store, session_id) == session_id \notin DOMAIN history_store

\* the assignment keeping no other key of the store
SetItemOnly(history_store, session_id, obj) == [k \in {session_id} |-> obj]

\* `self._history_store[session_id] = obj`
SetItem(history_store, session_id, obj) ==
  [k \in DOMAIN history_store \cup {session_id} |->
     IF k = session_id THEN obj ELSE history_store[k]]

\* get_session_history returning one history whatever the session
GetItemShared(history_store, session_id) ==
  history_store[CHOOSE k \in DOMAIN history_store : TRUE]

\* `self._history_store[session_id]`
GetItem(history_store, session_id) == history_store[session_id]

\* the response taken from the session memory when any history holds an
\* exchange: the last message recorded
ResponseContentRecalled(planning_result) ==
  IF \E h \in DOMAIN heap : Len(heap[h]) >= 2
  THEN LET h == CHOOSE h \in DOMAIN heap : Len(heap[h]) >= 2
       IN heap[h][Len(heap[h])].content
  ELSE IF planning_result.action = "ask_for_info"
       THEN planning_result.missing_info
       ELSE ""

\* the response of the branches that do not call the chat model
ResponseContent(planning_result) ==
  LET extracted == planning_result.extracted_data
  IN CASE planning_result.action = "ask_for_info" ->
            planning_result.missing_info
       [] planning_result.action = "use_calculator" ->
            IF extracted # NoData
            THEN PerformSimpleCalculation(extracted.num1, extracted.operator,
                                          extracted.num2)
            ELSE "I encountered an issue with the calculation. Could you please rephrase the calculation clearly?"
       [] planning_result.action = "use_outlet_db" ->
            IF extracted # NoData
            THEN GetMockOutletInfo(extracted.location, extracted.info_type)
            ELSE "I need more details to find outlet information. Please specify a location or what you're looking for."
       [] planning_result.action = "respond_directly" -> ""
       [] OTHER -> "I'm not sure how to handle that request. Can you rephrase?"

\* `str(response_content) if response_content is not None else ""`
ReturnValue(response_content) ==
  IF response_content = NoneStr THEN "" ELSE response_content

\* process_user_input is called: the planner runs and the branch computes
\* its response, up to the call of get_session_history
ProcessUserInput(t, user_input, session_id) ==
  LET planning_result == PlanNextAction(user_input)
  IN /\ Quiescent(t)
     /\ ncalls < MaxCalls
     /\ ncalls' = ncalls + 1
     /\ thread' = [thread EXCEPT ![t] =
          [pc |-> "get_check", op |-> "process_user_input",
           user_input |-> user_input, session_id |-> session_id,
           action |-> planning_result.action,
           response_content |-> ResponseContent(planning_result),
           history |-> 0, before |-> Messages(session_id),
           returned |-> NoneStr]]
     /\ UNCHANGED <<store, heap, completed, pvars>>

\* get_session_history is called by a client of the controller
GetSessionHistory(t, session_id) ==
  /\ Quiescent(t)
  /\ ncalls < MaxCalls
  /\ ncalls' = ncalls + 1
  /\ thread' = [thread EXCEPT ![t] =
       [IdleThread EXCEPT !.pc = "get_check", !.op = "get_session_history",
                          !.session_id = session_id,
                          !.before = Messages(session_id)]]
  /\ UNCHANGED <<store, heap, completed, pvars>>

\* get_session_history: `if session_id not in self._history_store:`
GetCheck(t) ==
  /\ thread[t].pc = "get_check"
  /\ thread' = [thread EXCEPT ![t].pc =
       IF NotInStore(store, thread[t].session_id)
       THEN "get_create" ELSE "get_return"]
  /\ UNCHANGED <<store, heap, ncalls, completed, pvars>>

\* get_session_history: `self._history_store[session_id] = ChatMessageHistory()`
GetCreate(t) ==
  /\ thread[t].pc = "get_create"
  /\ heap' = Append(heap, <<>>)
  /\ store' = SetItem(store, thread[t].session_id, Len(heap) + 1)
  /\ thread' = [thread EXCEPT ![t].pc = "get_return"]
  /\ UNCHANGED <<ncalls, completed, pvars>>

\* get_session_history: `return self._history_store[session_id]`, to its
\* caller: a client, a branch of process_user_input, or
\* RunnableWithMessageHistory before it invokes the chain
GetReturn(t) ==
  /\ thread[t].pc = "get_return"
  /\ thread' = [thread EXCEPT ![t] =
       [@ EXCEPT !.history = GetItem(store, thread[t].session_id),
                 !.pc = IF thread[t].op = "get_session_history" THEN "done"
                        ELSE IF thread[t].action = "respond_directly"
                             THEN "invoke" ELSE "add_user",
                 !.before = IF thread[t].op = "get_session_history"
                            THEN <<>> ELSE @]]
  /\ UNCHANGED <<store, heap, ncalls, completed, pvars>>

\* conversation_with_history.invoke: the chat model answers
InvokeReturns(t) ==
  /\ thread[t].pc = "invoke"
  /\ \E reply \in LlmReplies :
        thread' = [thread EXCEPT ![t].response_content = reply,
                                 ![t].pc = "add_user"]
  /\ UNCHANGED <<store, heap, ncalls, completed, pvars>>

\* conversation_with_history.invoke: the chat model fails; nothing in
\* process_user_input catches what it raises, and the locals of the call
\* are gone
InvokeRaises(t) ==
  /\ thread[t].pc = "invoke"
  /\ thread' = [thread EXCEPT ![t] =
       [IdleThread EXCEPT !.pc = "raised", !.op = thread[t].op]]
  /\ UNCHANGED <<store, heap, ncalls, completed, pvars>>

\* history.add_user_message(user_input)
AddUserMessage(t) ==
  /\ thread[t].pc = "add_user"
  /\ heap' = [heap EXCEPT ![thread[t].history] =
                Append(@, HumanMessage(thread[t].user_input))]
  /\ thread' = [thread EXCEPT ![t].pc = "add_ai"]
  /\ UNCHANGED <<store, ncalls, completed, pvars>>

\* the branch not recording its response
AddAiMessageForgotten(t) ==
  /\ thread[t].pc = "add_ai"
  /\ thread' = [thread EXCEPT ![t].pc = "return"]
  /\ UNCHANGED <<store, heap, ncalls, completed, pvars>>

\* history.add_ai_message(response_content)
AddAiMessage(t) ==
  /\ thread[t].pc = "add_ai"
  /\ heap' = [heap EXCEPT ![thread[t].history] =
                Append(@, AIMessage(thread[t].response_content))]
  /\ thread' = [thread EXCEPT ![t].pc = "return"]
  /\ UNCHANGED <<store, ncalls, completed, pvars>>

\* `return str(response_content) if response_content is not None else ""`;
\* the locals of the call are gone
Return(t) ==
  /\ thread[t].pc = "return"
  /\ thread' = [thread EXCEPT ![t] =
       [IdleThread EXCEPT !.pc = "done", !.op = thread[t].op,
          !.returned = ReturnValue(thread[t].response_content)]]
  /\ completed' = [completed EXCEPT ![thread[t].session_id] = @ + 1]
  /\ UNCHANGED <<store, heap, ncalls, pvars>>

Step(t) ==
  \/ GetCheck(t)
  \/ GetCreate(t)
  \/ GetReturn(t)
  \/ InvokeReturns(t)
  \/ InvokeRaises(t)
  \/ AddUserMessage(t)
  \/ AddAiMessage(t)
  \/ Return(t)

Call(t) ==
  \/ \E user_input \in HandleInputs, session_id \in Sessions :
        ProcessUserInput(t, user_input, session_id)
  \/ \E session_id \in Sessions : GetSessionHistory(t, session_id)

Init ==
  /\ utext = <<>>
  /\ probe = NoProbe
  /\ ControllerInit

\* threads call the controller at any time
Next == \E t \in Threads : Call(t) \/ Step(t)

Spec == Init /\ [][Next]_vars

\* one call at a time: a call starts when no other is in progress
SeqNext ==
  \E t \in Threads :
     \/ (\A u \in Threads : Quiescent(u)) /\ Call(t)
     \/ Step(t)

SeqSpec == Init /\ [][SeqNext]_vars

(***************************************************************************)
(* Properties of the controller.                                           *)
(***************************************************************************)
InFlightOn(session_id) ==
  \E t \in Threads : ~Quiescent(t) /\ thread[t].session_id = session_id

Handled(t) == thread[t].op = "process_user_input"

\* C1: with one call at a time, whenever no call is in progress on a
\* session, its history holds two messages per completed
\* process_user_input call on it: a human message, then an ai message.
C1_SequentialTurns ==
  \A s \in Sessions :
     ~InFlightOn(s) =>
        /\ Len(Messages(s)) = 2 * completed[s]
        /\ \A k \in 0..(completed[s] - 1) :
              /\ Messages(s)[2 * k + 1].type = "human"
              /\ Messages(s)[2 * k + 2].type = "ai"

\* three calls have completed on one session, through three different
\* branches
C1_Witness ==
  /\ completed["A"] = 3
  /\ ~InFlightOn("A")
  /\ Messages("A")[1].content = t_calculate
  /\ Messages("A")[3].content = t_hi
  /\ Messages("A")[5].content = t_div0

\* Messages(session_id) after the step
MessagesAfter(session_id) ==
  IF session_id \in DOMAIN store' THEN heap'[store'[session_id]] ELSE <<>>

\* the step that ends the call of thread t
Ends(t) ==
  /\ thread[t].pc \notin {"done", "raised"}
  /\ thread'[t].pc \in {"done", "raised"}

Returns(t) == thread[t].pc # "done" /\ thread'[t].pc = "done"

\* the history of the call's session is, when the call ends, what it was
\* when the call started and then the two messages of the call
AppendedOnePair(t) ==
  MessagesAfter(thread[t].session_id) =
    thread[t].before
      \o <<HumanMessage(thread[t].user_input), AIMessage(thread'[t].returned)>>

\* C2: with one call at a time, every call of process_user_input, when it
\* ends (by a return or by an exception), has appended to its session's
\* history exactly the human message of its input and then the ai message
\* of the string it returned.
C2_OnePairPerCall ==
  [][\A t \in Threads : (Handled(t) /\ Ends(t)) => AppendedOnePair(t)]_vars

\* what holds of the calls that return (C2 without the calls that the chat
\* model's failure ends)
ReturnedCallAppendsOnePair ==
  [][\A t \in Threads : (Handled(t) /\ Returns(t)) => AppendedOnePair(t)]_vars

\* the session of the call of which thread t takes a step
SessionOf(t) ==
  IF Quiescent(t) THEN thread'[t].session_id ELSE thread[t].session_id

\* C3: a step of a call on one session leaves the history of every other
\* session as it was, in every interleaving of the threads.
C3_SessionIsolation ==
  [][\A t \in Threads :
        thread'[t] # thread[t] =>
           \A b \in Sessions \ {SessionOf(t)} : MessagesAfter(b) = Messages(b)]_vars

\* a call appends to session B while both sessions have messages
C3_Witness ==
  /\ Messages("A") # <<>>
  /\ Len(Messages("B")) = 3
  /\ \E t \in Threads : thread[t].session_id = "B" /\ thread[t].pc = "add_ai"

\* every reference a call holds for a session is the object registered for
\* the session
C4_SameObject ==
  \A t \in Threads :
     thread[t].history # 0 =>
        /\ thread[t].session_id \in DOMAIN store
        /\ store[thread[t].session_id] = thread[t].history

\* a step keeps the object of every registered id, registers a new id with
\* an empty history, and, when it is a step of get_session_history on a
\* registered id, keeps the content of its history
C4_GetStep ==
  /\ \A s \in DOMAIN store : s \in DOMAIN store' /\ store'[s] = store[s]
  /\ \A s \in DOMAIN store' \ DOMAIN store : heap'[store'[s]] = <<>>
  /\ \A t \in Threads :
        (/\ thread[t].pc \in {"get_check", "get_create", "get_return"}
         /\ thread'[t] # thread[t]
         /\ thread[t].session_id \in DOMAIN store) =>
           heap'[store[thread[t].session_id]] = heap[store[thread[t].session_id]]

\* C4: with one call at a time, a session id once registered keeps the
\* same history object; an id is registered with an empty history; a get
\* on a registered id leaves the content of its history as it was; and
\* every reference a call obtained for a session is the object registered
\* for it, so that what is appended through one is seen through the others.
C4_GetOrCreate == []C4_SameObject /\ [][C4_GetStep]_vars

\* a client's get has returned the history of a session that two calls
\* have written
C4_Witness ==
  \E t \in Threads :
     /\ thread[t].op = "get_session_history"
     /\ thread[t].pc = "done"
     /\ Len(heap[thread[t].history]) = 4

\* C5: no call of process_user_input ends by an exception.
C5_NeverRaises == \A t \in Threads : thread[t].pc # "raised"

\* C6: in every interleaving of calls on one session, no two consecutive
\* messages of its history have the same type, and when no call is in
\* progress the history registered for it holds the two messages of every
\* completed call.
C6_Serialized ==
  \A s \in Sessions :
     /\ \A i \in 1..(Len(Messages(s)) - 1) :
           Messages(s)[i].type # Messages(s)[i + 1].type
     /\ ~InFlightOn(s) => Len(Messages(s)) = 2 * completed[s]

MaxNum == 12

DividesByZero(user_input) ==
  LET e == ExtractCalculationData(user_input)
  IN e # NoData /\ e.operator = "/" /\ e.num2 = 0

\* perform_simple_calculation(num1, '/', 0) for every num1 of the bound
C7_Tool ==
  \A n \in (-MaxNum)..MaxNum :
     PerformSimpleCalculation(n, "/", 0) = DivisionByZeroMsg

\* C7: perform_simple_calculation(num1, '/', 0) is the division-by-zero
\* text for every num1, and a call of process_user_input on a text whose
\* expression divides by zero returns that text and has recorded the
\* exchange when it returns.
C7_DivisionByZero ==
  [][/\ C7_Tool
     /\ \A t \in Threads :
           (/\ Handled(t)
            /\ Returns(t)
            /\ DividesByZero(thread[t].user_input)) =>
              /\ thread'[t].returned = DivisionByZeroMsg
              /\ AppendedOnePair(t)]_vars

\* a call on "5 / 0" is about to return the text, after an earlier exchange
\* in its session
C7_Witness ==
  \E t \in Threads :
     /\ Handled(t)
     /\ thread[t].pc = "return"
     /\ thread[t].user_input = t_div0
     /\ thread[t].response_content = DivisionByZeroMsg
     /\ Len(thread[t].before) = 2
     /\ Len(Messages(thread[t].session_id)) = 4

(***************************************************************************)
(* Properties of the planner.                                              *)
(***************************************************************************)
Applied(fn) == probe # NoProbe /\ probe.fn = fn

NoDigit(s) == \A i \in 1..Len(s) : ~IsDigit(s[i])

ContainsAny(s, words) == \E w \in words : Contains(s, w)

ArithmeticKeywords ==
  {w_calculate, w_math, w_sum_of, w_difference_of, w_product_of, w_quotient_of,
   w_plus, w_minus, w_times, w_multiply, w_divide, w_subtract, w_substract,
   w_divided_by, w_add}

OutletKeywords ==
  {w_outlet, w_store, w_shop, w_location, w_branch, w_opening, w_closing,
   w_hours, w_time, w_damansara, w_petaling_jaya, w_kuala_lumpur, w_pj, w_kl}

AllDigits(s, a, b) == \A i \in a..b : IsDigit(s[i])

AllSpaces(s, a, b) == \A i \in a..b : IsSpace(s[i])

\* s[a..b] s[k] s[c..d] is <int> <op> <int>, with white space around s[k]
IsExpression(s, a, b, k, c, d) ==
  /\ a <= b /\ b < k /\ k < c /\ c <= d
  /\ AllDigits(s, a, b)
  /\ AllSpaces(s, b + 1, k - 1)
  /\ IsOpChar(s[k])
  /\ AllSpaces(s, k + 1, c - 1)
  /\ AllDigits(s, c, d)

\* an expression starts at a
ExpressionAt(s, a) ==
  /\ IsDigit(s[a])
  /\ \E k \in (a + 1)..Len(s) :
        /\ IsOpChar(s[k])
        /\ \E b \in a..(k - 1), c \in (k + 1)..Len(s) :
              IsExpression(s, a, b, k, c, c)

HasExpression(s) == \E a \in 1..Len(s) : ExpressionAt(s, a)

\* C9: for a text that contains <int> <op> <int>, extract_calculation_data
\* returns the operands, as integers, and the operator sign of the first
\* such expression of the text, its operands taken whole.
C9_ExtractsExpression ==
  (Applied("extract_calculation_data") /\ HasExpression(utext)) =>
     \E a \in 1..Len(utext) :
        /\ ExpressionAt(utext, a)
        /\ \A a0 \in 1..(a - 1) : ~ExpressionAt(utext, a0)
        /\ \E k \in (a + 1)..Len(utext) :
              \E b \in a..(k - 1), c \in (k + 1)..Len(utext), d \in k..Len(utext) :
                 /\ IsExpression(utext, a, b, k, c, d)
                 /\ d = Len(utext) \/ ~IsDigit(utext[d + 1])
                 /\ probe.result =
                      CalcData(ParseInt(SubSeq(utext, a, b)), utext[k],
                               ParseInt(SubSeq(utext, c, d)))

\* extract_calculation_data was applied to a text with a two-digit operand
\* and a division
C9_Witness ==
  /\ Applied("extract_calculation_data")
  /\ utext = <<"5", "0", "/", "5">>
  /\ probe.result = CalcData(50, "/", 5)

\* C10: for a text classified calculation, plan_next_action returns
\* use_calculator with confidence 0.9 and the extracted data when
\* extract_calculation_data returns data, and otherwise ask_for_info with
\* confidence 0.8, the fixed prompt and no extracted data.
C10_CalculationPlan ==
  (Applied("plan_next_action") /\ AnalyzeIntent(utext) = "calculation") =>
     LET extracted == ExtractCalculationData(utext)
     IN /\ probe.result.intent = "calculation"
        /\ IF extracted # NoData
           THEN /\ probe.result.action = "use_calculator"
                /\ probe.result.confidence = 90
                /\ probe.result.extracted_data = extracted
                /\ probe.result.extracted_data.kind = "calc"
           ELSE /\ probe.result.action = "ask_for_info"
                /\ probe.result.confidence = 80
                /\ probe.result.missing_info = CalcMissingInfo
                /\ probe.result.extracted_data = NoData

\* plan_next_action was applied to the keyword alone
C10_Witness ==
  /\ Applied("plan_next_action")
  /\ utext = w_calculate
  /\ probe.result.action = "ask_for_info"
  /\ probe.result.extracted_data = NoData


(***************************************************************************)
(* The default branch of the planner and its dispatch by the controller.   *)
(***************************************************************************)
\* the texts on which the default branch is compared with the others: a
\* keyword token, or none, three times
KeywordInputs ==
  LET tokens == KeywordVocab \cup {<<>>}
  IN {a \o b \o c : a \in tokens, b \in tokens, c \in tokens}

\* a text classified general_chat is planned respond_directly with
\* confidence 0.5, no data and no prompt, and no other text is planned
\* respond_directly
C11_Plan ==
  \A u \in KeywordInputs \cup HandleInputs :
     LET r == PlanNextAction(u)
     IN /\ AnalyzeIntent(u) = "general_chat" =>
             r = PlanningResult("general_chat", "respond_directly", NoneStr,
                                NoData, 50)
        /\ r.action = "respond_directly" => r.intent = "general_chat"

\* thread t calls process_user_input in this step
Calls(t) ==
  /\ Quiescent(t)
  /\ thread'[t].pc = "get_check"
  /\ thread'[t].op = "process_user_input"

\* the call holds no response of a tool: response_content is still the
\* empty string it was initialised with
NoToolResponse(t) == thread'[t].response_content = ""

\* a step of thread t keeps the dispatch of the default branch: the call
\* takes the branch exactly for a text classified general_chat, computes no
\* tool response in it, reaches the chat model exactly through it, and
\* records what the chat model replied
C11_Dispatch(t) ==
  /\ Calls(t) =>
       /\ thread'[t].action = "respond_directly"
            <=> AnalyzeIntent(thread'[t].user_input) = "general_chat"
       /\ thread'[t].action = "respond_directly" => NoToolResponse(t)
  /\ (Handled(t) /\ thread[t].pc = "get_return" /\ thread'[t] # thread[t]) =>
       (thread'[t].pc = "invoke" <=> thread[t].action = "respond_directly")
  /\ (thread[t].pc # "invoke" /\ thread'[t].pc = "invoke") =>
       thread[t].pc = "get_return"
  /\ (thread[t].pc = "invoke" /\ thread'[t].pc = "add_user") =>
       thread'[t].response_content \in LlmReplies
  /\ (Handled(t) /\ Returns(t) /\ thread[t].action = "respond_directly") =>
       thread'[t].returned \in LlmReplies

\* C11: every text classified general_chat is planned respond_directly with
\* confidence 0.5, no extracted data and no prompt, and no text of another
\* intent is; process_user_input then calls the chat model, and no tool,
\* for exactly these texts.
C11_RespondDirectly ==
  [][C11_Plan /\ \A t \in Threads : C11_Dispatch(t)]_vars

\* a call on "Hi" has the chat model's reply and is about to record it,
\* after a call in the same session that a tool answered
C11_Witness ==
  \E t \in Threads :
     /\ Handled(t)
     /\ thread[t].pc = "add_ai"
     /\ thread[t].user_input = t_hi
     /\ thread[t].action = "respond_directly"
     /\ thread[t].response_content \in LlmReplies
     /\ Len(thread[t].before) = 2
     /\ thread[t].before[2].content = DivisionByZeroMsg


(***************************************************************************)
(* The order of the classification, and the operator words.                *)
(***************************************************************************)
MatchesCalculation(s) ==
  \E n \in 1..NumCalculationPatterns : CalculationPattern(n, Lower(s))

MatchesOutlet(s) == \E n \in 1..NumOutletPatterns : OutletPattern(n, Lower(s))

\* C12: a text that matches a calculation pattern is classified
\* calculation, also when it matches an outlet pattern; a text that matches
\* no calculation pattern and an outlet pattern is classified outlet_info;
\* any other text is classified general_chat, and none unknown.
C12_FirstMatchWins ==
  Applied("analyze_intent") =>
     LET calculation == MatchesCalculation(utext)
         outlet == MatchesOutlet(utext)
     IN /\ probe.result # "unknown"
        /\ calculation => probe.result = "calculation"
        /\ (~calculation /\ outlet) => probe.result = "outlet_info"
        /\ (~calculation /\ ~outlet) => probe.result = "general_chat"

\* analyze_intent was applied to a text that matches a pattern of both
\* lists
C12_Witness ==
  /\ Applied("analyze_intent")
  /\ utext = w_calculate \o w_outlet
  /\ MatchesCalculation(utext)
  /\ MatchesOutlet(utext)
  /\ probe.result = "calculation"

\* the operator words of the claim and the sign its table gives each
ClaimedOperatorWords ==
  {w_plus, w_minus, w_times, w_multiply, w_divide, w_subtract, w_divided_by}

ClaimedSign(w) ==
  CASE w \in {w_plus} -> "+"
    [] w \in {w_minus, w_subtract} -> "-"
    [] w \in {w_times, w_multiply} -> "*"
    [] w \in {w_divide, w_divided_by} -> "/"

\* s is s[1..b] w s[c..Len(s)]: <int> <word> <int>, with white space around
\* the word
IsWordExpression(s, b, w, c) ==
  /\ 1 <= b /\ b < c /\ c <= Len(s)
  /\ AllDigits(s, 1, b)
  /\ \E k \in (b + 1)..c :
        /\ AllSpaces(s, b + 1, k - 1)
        /\ HasAt(s, k, w)
        /\ k + Len(w) <= c
        /\ AllSpaces(s, k + Len(w), c - 1)
  /\ AllDigits(s, c, Len(s))

\* what the claim says of a text <int> <word> <int> with a word of words
WordExpressionPlanned(words) ==
  (Len(utext) > 0 /\ IsDigit(utext[1]) /\ IsDigit(utext[Len(utext)])) =>
  \A w \in words :
     \A b \in 1..Len(utext), c \in 1..Len(utext) :
        IsWordExpression(Lower(utext), b, w, c) =>
           /\ Applied("analyze_intent") => probe.result = "calculation"
           /\ Applied("extract_calculation_data") =>
                probe.result =
                  CalcData(ParseInt(SubSeq(utext, 1, b)), ClaimedSign(w),
                           ParseInt(SubSeq(utext, c, Len(utext))))
           /\ Applied("plan_next_action") =>
                /\ probe.result.action = "use_calculator"
                /\ probe.result.confidence = 90

\* C13: a text <int> <word> <int> whose word is plus, minus, times,
\* multiply, divide, subtract or divided by is classified calculation,
\* extract_calculation_data returns its two integers with the sign of the
\* word, and the plan is use_calculator.
C13_OperatorWords == WordExpressionPlanned(ClaimedOperatorWords)

\* C13 for the words other than subtract
OperatorWordsButSubtract ==
  WordExpressionPlanned(ClaimedOperatorWords \ {w_subtract})


(***************************************************************************)
(* The outlet branches.  What a text names is stated on its lower-cased    *)
(* form, by the words it contains.                                         *)
(***************************************************************************)
SpecificOutlets == {"SS2", "SS15", "Damansara"}

\* what a lower-cased text l names
NamesSS2(l) == ContainsAny(l, {w_ss2, w_ss_2})

NamesSS15(l) == ContainsAny(l, {w_ss15, w_ss_15})

NamesDamansara(l) == Contains(l, w_damansara)

NamesPetalingJaya(l) == ContainsAny(l, {w_petaling_jaya, w_pj})

NamesKualaLumpur(l) == ContainsAny(l, {w_kuala_lumpur, w_kl})

NamesSpecific(l) == NamesSS2(l) \/ NamesSS15(l) \/ NamesDamansara(l)

NamesGeneral(l) == NamesPetalingJaya(l) \/ NamesKualaLumpur(l)

NamesInfo(l) ==
  ContainsAny(l, {w_opening, w_open, w_closing, w_close, w_hours, w_time})

\* the location of the first rule, in the order SS2, SS15, Damansara,
\* Petaling Jaya, Kuala Lumpur, that the lower-cased text satisfies
FirstLocation(l) ==
  LET ss2 == NamesSS2(l)
      ss15 == NamesSS15(l)
      damansara == NamesDamansara(l)
      pj == NamesPetalingJaya(l)
      kl == NamesKualaLumpur(l)
  IN CASE ss2 -> "SS2"
       [] ~ss2 /\ ss15 -> "SS15"
       [] ~ss2 /\ ~ss15 /\ damansara -> "Damansara"
       [] ~ss2 /\ ~ss15 /\ ~damansara /\ pj -> "Petaling Jaya"
       [] ~ss2 /\ ~ss15 /\ ~damansara /\ ~pj /\ kl -> "Kuala Lumpur"
       [] OTHER -> NoneStr

\* opening_hours for opening/open, else closing_hours for closing/close,
\* else hours for hours/time
FirstInfoType(l) ==
  LET opening == ContainsAny(l, {w_opening, w_open})
      closing == ContainsAny(l, {w_closing, w_close})
      hours == ContainsAny(l, {w_hours, w_time})
  IN CASE opening -> "opening_hours"
       [] ~opening /\ closing -> "closing_hours"
       [] ~opening /\ ~closing /\ hours -> "hours"
       [] OTHER -> NoneStr

\* plan_next_action was applied to a text that it classified outlet_info
PlannedOutlet ==
  Applied("plan_next_action") /\ probe.result.intent = "outlet_info"

\* C14: a text classified outlet_info that names SS2, SS15 or Damansara is
\* planned use_outlet_db with confidence 0.9 and that outlet as location,
\* whether or not it also names Petaling Jaya or Kuala Lumpur and whether
\* or not it names an info type.
C14_SpecificBeatsGeneral ==
  (PlannedOutlet /\ NamesSpecific(Lower(utext))) =>
     /\ probe.result.action = "use_outlet_db"
     /\ probe.result.confidence = 90
     /\ probe.result.missing_info = NoneStr
     /\ probe.result.extracted_data # NoData
     /\ probe.result.extracted_data.location \in SpecificOutlets
     /\ probe.result.extracted_data.location = FirstLocation(Lower(utext))

\* plan_next_action was applied to a text that names a general area before
\* an outlet, and no info type
C14_Witness ==
  /\ Applied("plan_next_action")
  /\ utext = w_pj \o <<" ">> \o w_ss2
  /\ NamesGeneral(Lower(utext))
  /\ ~NamesInfo(Lower(utext))
  /\ probe.result.action = "use_outlet_db"
  /\ probe.result.extracted_data.location = "SS2"

\* the info type as the prompt words it
Spaced(info_type) ==
  CASE info_type = "opening_hours" -> "opening hours"
    [] info_type = "closing_hours" -> "closing hours"
    [] info_type = "hours" -> "hours"

\* a prompt that asks for the outlet and echoes the words of an info type
EchoesInfoType(prompt, info_type) ==
  \E area \in GeneralAreas :
     prompt = "Yes, we have outlets in " \o area
        \o "! Which specific outlet are you referring to (e.g., SS2, SS15, Damansara) to check the "
        \o Spaced(info_type) \o "?"

\* a prompt that asks for the outlet and names an area
NamesArea(prompt, area) ==
  prompt = "Yes, we have outlets in " \o area
     \o "! Which specific outlet are you referring to?"

\* C15: a text classified outlet_info that names no specific outlet is
\* planned ask_for_info with a non-empty prompt; the confidence is 0.85
\* exactly when the text names a general area or an info type, which is
\* when data was extracted, and 0.7 exactly when it names neither and
\* nothing was extracted; with an info type the prompt echoes it with a
\* space for the underscore, and with a general area and no info type the
\* prompt names the area.
C15_AskForOutlet ==
  PlannedOutlet =>
     LET l == Lower(utext)
         general == NamesGeneral(l)
         info == NamesInfo(l)
         found == general \/ info
     IN ~NamesSpecific(l) =>
        /\ probe.result.action = "ask_for_info"
        /\ probe.result.missing_info \notin {NoneStr, ""}
        /\ probe.result.confidence \in {85, 70}
        /\ probe.result.confidence = 85 <=> found
        /\ probe.result.confidence = 70 <=> ~found
        /\ probe.result.extracted_data # NoData <=> found
        /\ info =>
             EchoesInfoType(probe.result.missing_info, FirstInfoType(l))
        /\ (general /\ ~info) =>
             NamesArea(probe.result.missing_info, FirstLocation(l))

\* plan_next_action was applied to a text that names Kuala Lumpur and the
\* closing hours
C15_Witness ==
  /\ Applied("plan_next_action")
  /\ utext = w_kl \o <<" ">> \o w_closing
  /\ probe.result.action = "ask_for_info"
  /\ probe.result.confidence = 85
  /\ probe.result.extracted_data = OutletData("Kuala Lumpur", "closing_hours")

\* C16: extract_outlet_data returns the location of the first rule that
\* the text satisfies, in the order SS2, SS15, Damansara, Petaling Jaya,
\* Kuala Lumpur, and the info type opening_hours, else closing_hours, else
\* hours, each found without regard to the other; it returns None exactly
\* when the text gives neither, and otherwise a dict in which the one not
\* found is None.
C16_ExtractOutlet ==
  Applied("extract_outlet_data") =>
     LET l == Lower(utext)
         location == FirstLocation(l)
         info_type == FirstInfoType(l)
     IN /\ probe.result = NoData <=> (location = NoneStr /\ info_type = NoneStr)
        /\ probe.result # NoData =>
             /\ probe.result.location = location
             /\ probe.result.info_type = info_type

\* extract_outlet_data was applied to a text that names two locations and
\* two info types, the later rule's word first
C16_Witness ==
  /\ Applied("extract_outlet_data")
  /\ utext = w_closing \o w_open \o w_kl
  /\ probe.result = OutletData("Kuala Lumpur", "opening_hours")


(***************************************************************************)
(* The conversation of tests/test_conversation.py, in short texts: an      *)
(* outlet is named in one turn, and a follow-up names an info type and no  *)
(* outlet.  One call at a time.                                            *)
(***************************************************************************)
t_closing_time == w_closing \o <<" ">> \o w_time

FollowUpInputs == {t_ss2, t_closing_time, t_hi}

FollowUpCall(t) ==
  \E user_input \in FollowUpInputs, session_id \in Sessions :
     ProcessUserInput(t, user_input, session_id)

FollowUpNext ==
  \E t \in Threads :
     \/ (\A u \in Threads : Quiescent(u)) /\ FollowUpCall(t)
     \/ Step(t)

FollowUpSpec == Init /\ [][FollowUpNext]_vars

\* a call of process_user_input that thread t has in progress and that the
\* planner did not give to the chat model
Planned(t) ==
  /\ Handled(t)
  /\ ~Quiescent(t)
  /\ thread[t].action # "respond_directly"

\* the responses recorded for a text: the content of the message after a
\* human message of that text, in the history of any session
RecordedResponses(user_input) ==
  UNION {{Messages(s)[i + 1].content :
            i \in {i \in 1..(Len(Messages(s)) - 1) :
                     /\ Messages(s)[i].type = "human"
                     /\ Messages(s)[i].content = user_input}} :
         s \in Sessions}

\* the response of a planned call in progress is the one recorded for
\* its text in every session and at every place of a history
SameAsRecorded ==
  \A t \in Threads :
     Planned(t) =>
        RecordedResponses(thread[t].user_input)
          \subseteq {thread[t].response_content}

\* what the planner and the tools give for each text, computed from the
\* text and from nothing else
PlanOf == [u \in FollowUpInputs |-> PlanNextAction(u)]

ResponseOf == [u \in FollowUpInputs |-> ResponseContent(PlanOf[u])]

\* the texts classified outlet_info that name an info type and no outlet
FollowUps ==
  {u \in FollowUpInputs :
     /\ PlanOf[u].intent = "outlet_info"
     /\ NamesInfo(Lower(u))
     /\ ~NamesSpecific(Lower(u))}

\* a call that starts takes its action and its response, which a tool
\* computes from the extracted data, from its text alone, and a planned
\* call keeps them until it returns
FromTextAlone(t) ==
  /\ (Calls(t) /\ thread'[t].action # "respond_directly") =>
       LET user_input == thread'[t].user_input
       IN /\ thread'[t].action = PlanOf[user_input].action
          /\ thread'[t].response_content = ResponseOf[user_input]
          /\ user_input \in FollowUps =>
               /\ thread'[t].action = "ask_for_info"
               /\ thread'[t].response_content = PlanOf[user_input].missing_info
  /\ (Planned(t) /\ thread'[t].pc # "done") =>
       /\ thread'[t].action = thread[t].action
       /\ thread'[t].response_content = thread[t].response_content

IsPrefix(a, b) == Len(a) <= Len(b) /\ SubSeq(b, 1, Len(a)) = a

\* a step that changes the store or a history removes no session id from
\* the store, and leaves the messages of every session, and of every
\* history object, as a prefix of what they are after it
GrowsOnly ==
  (store' # store \/ heap' # heap) =>
     /\ DOMAIN store \subseteq DOMAIN store'
     /\ \A s \in Sessions : IsPrefix(Messages(s), MessagesAfter(s))
     /\ \A h \in DOMAIN heap : h \in DOMAIN heap' /\ IsPrefix(heap[h], heap'[h])

\* the history of a call's session when the call started is a prefix of
\* its history when the call ends
PrefixOverCall(t) ==
  (Handled(t) /\ Ends(t)) =>
     IsPrefix(thread[t].before, MessagesAfter(thread[t].session_id))

\* C18: with one call at a time, no step of process_user_input or of
\* get_session_history removes, reorders or rewrites a message: the history
\* of each session before a step is a prefix of its history after it, and
\* so is the history before a call of its history after the call; a
\* session id registered in the store stays registered.
C18_AppendOnly == [][GrowsOnly /\ \A t \in Threads : PrefixOverCall(t)]_vars

\* three calls have returned in two sessions and both ids are registered,
\* the second of them by a get
C18_Witness ==
  /\ \A t \in Threads : Quiescent(t)
  /\ DOMAIN store = Sessions
  /\ completed["A"] = 2
  /\ Len(Messages("A")) = 4
  /\ Messages("B") = <<>>
  /\ \E t \in Threads : thread[t].op = "get_session_history"

=============================================================================
